---- MODULE Spec2Model ----
(***************************************************************************)
(* A model of kindle-audify: the chunk planner and the bounded synthesis   *)
(* runner of TextToSpeechTask (src/ts/TextToSpeechTask.ts), the recursive  *)
(* merger ConcatMp3Task, the OCR stage OcrTask (src/app.ts) and the        *)
(* sentence segmenter splitSentences.                                      *)
(*                                                                         *)
(* Strings are sequences of tokens (one token per character, or one token  *)
(* for a stretch of characters no operation looks into).  A fragment of    *)
(* text is known by its index in `texts` and its length; a chunk is the    *)
(* sequence of the fragment indices it concatenates, and its length is     *)
(* the sum of their lengths.  Indices are 1-based here, 0-based in the     *)
(* source.                                                                 *)
(***************************************************************************)
EXTENDS Integers, Sequences, FiniteSets, TLC

VARIABLES
  \* TextToSpeechTask.run
  texts, existFiles, i, num, jobs, ttsPc, ttsResult,
  \* the storage bucket and the environment's remaining failures
  storage, failBudget, fifo,
  \* ConcatMp3Task.run
  nSeg, files, prevFiles, level, cjobs, catPc, catResult, ops,
  \* splitSentences
  ocrDoc, delimiter, fragments, segPc,
  \* OcrTask.run
  bucketList, freshList, ocrPc, ocrResult, annotateCalls

ttsVars == <<texts, existFiles, i, num, jobs, ttsPc, ttsResult>>
envVars == <<storage, failBudget, fifo>>
catVars == <<nSeg, files, prevFiles, level, cjobs, catPc, catResult, ops>>
segVars == <<ocrDoc, delimiter, fragments, segPc>>
ocrVars == <<bucketList, freshList, ocrPc, ocrResult, annotateCalls>>
vars == <<ttsVars, envVars, catVars, segVars, ocrVars>>

---------------------------------------------------------------------------
(* Program constants *)

maxConcurrency == 8
maxLength == 5000
maxCombine == 32
maxTries == 5

(* Bounds of the model *)

MaxFrags == 3      \* fragments of a planned text (chunk specification)
MaxJobs == 10      \* cap on the jobs the planning loop may submit
MaxFails == 6      \* failures the environment may inject into one run
MaxWords == 2      \* words of a page (segmenter)
MaxShards == 3     \* shards of an OCR output
BatchSize == 5     \* pages the OCR service puts into one shard

---------------------------------------------------------------------------
(* Strings *)

Digit == <<"0", "1", "2", "3", "4", "5", "6", "7", "8", "9">>
IsDigit(c) == \E d \in 1..10 : Digit[d] = c
DigitVal(c) == (CHOOSE d \in 1..10 : Digit[d] = c) - 1

RECURSIVE Dec(_)
\* `${num}`: the decimal digits of a number
Dec(n) == IF n < 10 THEN <<Digit[n + 1]>> ELSE Dec(n \div 10) \o <<Digit[(n % 10) + 1]>>

EndsWith(s, t) ==
  /\ Len(t) <= Len(s)
  /\ SubSeq(s, Len(s) - Len(t) + 1, Len(s)) = t

RECURSIVE SumLen(_, _)
\* the length of the string a chunk stands for
SumLen(ts, text) ==
  IF text = <<>> THEN 0 ELSE ts[Head(text)] + SumLen(ts, Tail(text))

RECURSIVE Flatten(_)
Flatten(ss) == IF ss = <<>> THEN <<>> ELSE Head(ss) \o Flatten(Tail(ss))

Range(s) == {s[k] : k \in DOMAIN s}

---------------------------------------------------------------------------
(* TextToSpeechTask: the chunk planner *)

\* (mutant) the length is tested before the fragment is added
RECURSIVE takeChunkLateLoop(_, _, _)
takeChunkLateLoop(ts, text, k) ==
  IF k > Len(ts) THEN [text |-> text, next |-> Len(ts) + 1]
  ELSE IF SumLen(ts, text) > maxLength THEN [text |-> text, next |-> k]
  ELSE takeChunkLateLoop(ts, text \o <<k>>, k + 1)

takeChunkLate(ts, index) == takeChunkLateLoop(ts, <<>>, index)

RECURSIVE takeChunkLoop(_, _, _)
takeChunkLoop(ts, text, k) ==
  IF k > Len(ts) THEN [text |-> text, next |-> Len(ts) + 1]
  ELSE IF SumLen(ts, text \o <<k>>) > maxLength THEN [text |-> text, next |-> k]
  ELSE takeChunkLoop(ts, text \o <<k>>, k + 1)

takeChunk(ts, index) == takeChunkLoop(ts, <<>>, index)

suffixString(n) ==
  (IF n < 10 THEN <<"0", "0">> ELSE IF n < 100 THEN <<"0">> ELSE <<>>) \o Dec(n)

getOutputPath(prefix, n) ==
  prefix \o <<"/", "output", "-">> \o suffixString(n) \o <<".mp3">>

\* the prefix the pipeline passes: dev/mp3/<basename>
outputPrefix == <<"dev/mp3/book">>

\* (mutant) the existence check tests the prefix instead of the output path
alreadyExistsPrefix(listed, path) == \E f \in listed : EndsWith(f, outputPrefix)

\* existFiles.some(f => f.endsWith(outputPath))
alreadyExists(listed, path) == \E f \in listed : EndsWith(f, path)

\* (mutant) the limiter admits one job too many
limitAdmitsOneMore(active) == active <= maxConcurrency

\* p-limit: a queued job is started while fewer than `concurrency` are active
limitAdmits(active) == active < maxConcurrency

\* (mutant) the give-up test is off by one
gaveUpLate(count) == count > maxTries + 1

\* promiseRetry callback: if (count > 5) reject(`gave up after ${count-1} retry`)
gaveUp(count) == count > maxTries

ActiveTts == Cardinality({j \in DOMAIN jobs : jobs[j].st = "active"})

NoPath == <<>>

\* one iteration of the while loop of run: takeChunk, getOutputPath, limit(...)
PlanStep ==
  /\ ttsPc = "plan"
  /\ i <= Len(texts)
  /\ num < MaxJobs
  /\ LET chunk == takeChunk(texts, i)
         outputPath == getOutputPath(outputPrefix, num + 1)
     IN /\ num' = num + 1
        /\ jobs' = Append(jobs, [from |-> i, text |-> chunk.text, next |-> chunk.next,
                                 path |-> outputPath, st |-> "queued", count |-> 0,
                                 calls |-> 0, res |-> NoPath, err |-> 0])
        /\ i' = chunk.next
  /\ UNCHANGED <<texts, existFiles, ttsPc, ttsResult, envVars, catVars, segVars, ocrVars>>

\* the loop ends: return Promise.all(promises)
PlanEnd ==
  /\ ttsPc = "plan"
  /\ i > Len(texts)
  /\ ttsPc' = "await"
  /\ UNCHANGED <<texts, existFiles, i, num, jobs, ttsResult, envVars, catVars, segVars, ocrVars>>

\* the limiter runs the job's function: the existence check, then the first attempt
StartJob(j) ==
  /\ jobs[j].st = "queued"
  /\ \A k \in 1..(j - 1) : jobs[k].st # "queued"
  /\ limitAdmits(ActiveTts)
  /\ IF alreadyExists(existFiles, jobs[j].path)
       THEN jobs' = [jobs EXCEPT ![j].st = "resolved", ![j].res = jobs[j].path]
       ELSE jobs' = [jobs EXCEPT ![j].st = "active", ![j].count = 1, ![j].calls = 1]
  /\ UNCHANGED <<texts, existFiles, i, num, ttsPc, ttsResult, envVars, catVars, segVars, ocrVars>>

\* ttsRequest resolves: the audio is synthesized and written at the job's path
TtsOk(j) ==
  /\ ttsPc # "plan"
  /\ jobs[j].st = "active"
  /\ fifo => \A k \in 1..(j - 1) : jobs[k].st # "active"
  /\ storage' = [p \in DOMAIN storage \cup {jobs[j].path} |->
                   IF p = jobs[j].path THEN jobs[j].text ELSE storage[p]]
  /\ jobs' = [jobs EXCEPT ![j].st = "resolved", ![j].res = jobs[j].path]
  /\ UNCHANGED <<texts, existFiles, i, num, ttsPc, ttsResult, failBudget, fifo,
                 catVars, segVars, ocrVars>>

\* ttsRequest rejects: .catch(retry) asks for the next attempt, whose callback
\* either gives up or invokes ttsRequest again
TtsFail(j) ==
  /\ ttsPc # "plan"
  /\ jobs[j].st = "active"
  /\ fifo => \A k \in 1..(j - 1) : jobs[k].st # "active"
  /\ failBudget > 0
  /\ failBudget' = failBudget - 1
  /\ LET count == jobs[j].count + 1
     IN IF gaveUp(count)
          THEN jobs' = [jobs EXCEPT ![j].st = "rejected", ![j].count = count,
                                    ![j].err = count - 1]
          ELSE jobs' = [jobs EXCEPT ![j].count = count, ![j].calls = jobs[j].calls + 1]
  /\ UNCHANGED <<texts, existFiles, i, num, ttsPc, ttsResult, storage, fifo,
                 catVars, segVars, ocrVars>>

\* Promise.all resolves with the jobs' results in submission order
TtsResolve ==
  /\ ttsPc = "await"
  /\ \A j \in DOMAIN jobs : jobs[j].st = "resolved"
  /\ ttsPc' = "resolved"
  /\ ttsResult' = [j \in DOMAIN jobs |-> jobs[j].res]
  /\ UNCHANGED <<texts, existFiles, i, num, jobs, envVars, catVars, segVars, ocrVars>>

\* Promise.all rejects as soon as one job rejects; the other jobs go on
TtsReject ==
  /\ ttsPc = "await"
  /\ \E j \in DOMAIN jobs : jobs[j].st = "rejected"
  /\ ttsPc' = "rejected"
  /\ UNCHANGED <<texts, existFiles, i, num, jobs, ttsResult, envVars, catVars, segVars, ocrVars>>

NextPlan == PlanStep \/ PlanEnd

NextTts ==
  \/ PlanStep
  \/ PlanEnd
  \/ \E j \in DOMAIN jobs : StartJob(j)
  \/ \E j \in DOMAIN jobs : TtsOk(j)
  \/ \E j \in DOMAIN jobs : TtsFail(j)
  \/ TtsResolve
  \/ TtsReject

IdleTts ==
  /\ texts = <<>> /\ existFiles = {} /\ i = 1 /\ num = 0 /\ jobs = <<>>
  /\ ttsPc = "idle" /\ ttsResult = <<>>

IdleCat ==
  /\ nSeg = 0 /\ files = <<>> /\ prevFiles = <<>> /\ level = 0 /\ cjobs = <<>>
  /\ catPc = "idle" /\ catResult = NoPath /\ ops = <<>>

IdleSeg ==
  /\ ocrDoc = <<>> /\ delimiter = <<>> /\ fragments = <<>> /\ segPc = "idle"

IdleOcr ==
  /\ bucketList = <<>> /\ freshList = <<>> /\ ocrPc = "idle" /\ ocrResult = <<>> /\ annotateCalls = 0

---------------------------------------------------------------------------
(* The chunk planner on every short fragment list *)

FragLens == {1, 2000, 3000, 5000, 6000}

RECURSIVE SeqsUpTo(_, _)
SeqsUpTo(S, n) ==
  IF n = 0 THEN {<<>>}
  ELSE LET shorter == SeqsUpTo(S, n - 1)
       IN shorter \cup {Append(s, x) : s \in {t \in shorter : Len(t) = n - 1}, x \in S}

InitChunk ==
  /\ texts \in SeqsUpTo(FragLens, MaxFrags)
  /\ existFiles = {} /\ i = 1 /\ num = 0 /\ jobs = <<>> /\ ttsPc = "plan" /\ ttsResult = <<>>
  /\ storage = <<>> /\ failBudget = 0 /\ fifo = FALSE
  /\ IdleCat /\ IdleSeg /\ IdleOcr

SpecChunk == InitChunk /\ [][NextPlan]_vars

(* C1: for every fragment list and every start index whose fragment alone is
   longer than maxLength, the chunk takeChunk returns from that index is
   exactly that one fragment, not an empty chunk. *)
OversizeFragmentIsItsOwnChunk ==
  \A j \in DOMAIN jobs :
    texts[jobs[j].from] > maxLength => jobs[j].text = <<jobs[j].from>>

(* C2: the chunks the planning loop produces are contiguous, non-overlapping
   runs of fragments (each takes the fragments from its start index up to the
   next chunk's start, at least one), and once the loop has ended their
   concatenation in order is the concatenation of all fragments in order. *)
ChunkCoverage ==
  /\ \A j \in DOMAIN jobs :
       /\ jobs[j].from = (IF j = 1 THEN 1 ELSE jobs[j - 1].next)
       /\ jobs[j].from < jobs[j].next
       /\ jobs[j].text = [k \in 1..(jobs[j].next - jobs[j].from) |-> jobs[j].from + k - 1]
  /\ ttsPc # "plan" =>
       Flatten([j \in DOMAIN jobs |-> jobs[j].text]) = [k \in 1..Len(texts) |-> k]

---------------------------------------------------------------------------
(* One run of TextToSpeechTask on a few texts, listings and failures *)

OldAudio == <<0>>

\* names a listing of the output prefix may hold
ListedNames ==
  { getOutputPath(outputPrefix, 1), getOutputPath(outputPrefix, 2),
    outputPrefix \o <<"/">> \o getOutputPath(outputPrefix, 1) }

TtsTexts == { <<3000>>, <<3000, 3000>>, <<2000, 3000, 3000>>, <<3000, 6000>> }

InitTts ==
  /\ texts \in TtsTexts
  /\ existFiles \in SUBSET ListedNames
  /\ i = 1 /\ num = 0 /\ jobs = <<>> /\ ttsPc = "plan" /\ ttsResult = <<>>
  /\ storage = [f \in existFiles |-> OldAudio]
  /\ failBudget = MaxFails /\ fifo = FALSE
  /\ IdleCat /\ IdleSeg /\ IdleOcr

SpecTts == InitTts /\ [][NextTts]_vars

Settled(j) == jobs[j].st \in {"resolved", "rejected"}

RetryInv ==
  \A j \in DOMAIN jobs :
    /\ jobs[j].calls <= 5
    /\ jobs[j].st = "rejected" => jobs[j].calls = 5 /\ jobs[j].err = 5
    /\ (jobs[j].st = "resolved" /\ jobs[j].calls > 0) => jobs[j].res = jobs[j].path
    /\ (jobs[j].st = "resolved" /\ ~alreadyExists(existFiles, jobs[j].path)) =>
         jobs[j].calls \in 1..5

(* C3: a synthesis job whose path is not listed invokes ttsRequest at most 5
   times; it rejects only after 5 failed invocations, naming 5 as the count,
   and resolves with its output path after a successful one; once settled it
   is never invoked again. *)
RetryBound ==
  /\ []RetryInv
  /\ [][\A j \in DOMAIN jobs : Settled(j) => jobs'[j] = jobs[j]]_vars

RetryBoundWitness ==
  /\ \E j \in DOMAIN jobs : jobs[j].st = "rejected" /\ jobs[j].calls = 5
  /\ \E j \in DOMAIN jobs : jobs[j].st = "resolved" /\ jobs[j].calls = 2

PlannedPaths == [k \in 1..num |-> getOutputPath(outputPrefix, k)]

(* C4: a job whose output path is in the up-front listing never invokes the
   speech provider, never writes its path, and resolves with that path; when
   the listing holds every planned path the run resolves with exactly the
   planned paths after no invocation and no write at all. *)
ResumeIdempotence ==
  /\ \A j \in DOMAIN jobs :
       (jobs[j].path \in existFiles /\ jobs[j].st # "queued") =>
         /\ jobs[j].st = "resolved" /\ jobs[j].res = jobs[j].path
         /\ jobs[j].calls = 0
         /\ storage[jobs[j].path] = OldAudio
  /\ (ttsPc = "resolved" /\ \A j \in DOMAIN jobs : jobs[j].path \in existFiles) =>
       /\ \A j \in DOMAIN jobs : jobs[j].calls = 0
       /\ storage = [f \in existFiles |-> OldAudio]
       /\ ttsResult = PlannedPaths

ResumeIdempotenceWitness ==
  /\ ttsPc = "resolved"
  /\ num = 2
  /\ \A j \in DOMAIN jobs : jobs[j].path \in existFiles

---------------------------------------------------------------------------
(* ConcatMp3Task *)

Min(a, b) == IF a < b THEN a ELSE b
Ceil(a, b) == (a + b - 1) \div b

\* require('path').dirname: what precedes the last "/"
dirname(f) ==
  LET slashes == {k \in DOMAIN f : f[k] = "/"}
  IN IF slashes = {} THEN <<".">>
     ELSE SubSeq(f, 1, (CHOOSE k \in slashes : \A m \in slashes : m <= k) - 1)

\* f.replace(/^.*?-([0-9]{3}).*$/, '$1'): the three digits after the first "-"
\* that three digits follow; f itself when there is none
firstIndex(f) ==
  LET hits == {k \in 1..(Len(f) - 3) :
                 f[k] = "-" /\ IsDigit(f[k + 1]) /\ IsDigit(f[k + 2]) /\ IsDigit(f[k + 3])}
  IN IF hits = {} THEN f
     ELSE LET k == CHOOSE h \in hits : \A m \in hits : h <= m
          IN SubSeq(f, k + 1, k + 3)

\* f.replace(/^.*([0-9]{3})\.mp3$/, '$1'): the three digits before a final ".mp3"
lastIndex(f) ==
  IF /\ Len(f) >= 4
     /\ f[Len(f)] = ".mp3"
     /\ IsDigit(f[Len(f) - 1]) /\ IsDigit(f[Len(f) - 2]) /\ IsDigit(f[Len(f) - 3])
    THEN SubSeq(f, Len(f) - 3, Len(f) - 1)
    ELSE f

getConcatFilePath(group) ==
  dirname(group[1]) \o <<"/", "concat", "-">> \o firstIndex(group[1])
    \o <<"-">> \o lastIndex(group[Len(group)]) \o <<".mp3">>

\* (mutant) the slice of a group takes one file too many
groupOfOverlapping(fs, g) ==
  SubSeq(fs, maxCombine * (g - 1) + 1, Min(maxCombine * g + 1, Len(fs)))

\* files.slice(i, i + maxCombine), for the g-th value of i
groupOf(fs, g) == SubSeq(fs, maxCombine * (g - 1) + 1, Min(maxCombine * g, Len(fs)))

\* the for loop of run: one job per group
levelJobs(fs, lvl) ==
  [g \in 1..Ceil(Len(fs), maxCombine) |->
     [lvl |-> lvl, group |-> groupOf(fs, g), dest |-> getConcatFilePath(groupOf(fs, g)),
      st |-> "queued", calls |-> 0]]

\* (mutant) a list of two is treated like a list of one
copiesDirectlyUpToTwo(fs) == Len(fs) \in {1, 2}

\* if (files.length === 1)
copiesDirectly(fs) == Len(fs) = 1

outputPath == <<"dev/out/book.mp3">>

ActiveCat == Cardinality({j \in DOMAIN cjobs : cjobs[j].st = "active"})
ActiveAt(lvl) == Cardinality({j \in DOMAIN cjobs : cjobs[j].st = "active" /\ cjobs[j].lvl = lvl})
LevelJobIds == {j \in DOMAIN cjobs : cjobs[j].lvl = level}

\* (mutant) the test for an empty list is missing
rejectsEmptyNever(fs) == FALSE

\* if (files.length === 0) return Promise.reject('files are empty')
rejectsEmpty(fs) == Len(fs) = 0

\* the synchronous part of run(fs, outputPath)
Enter(fs, lvl) ==
  /\ files' = fs
  /\ level' = lvl
  /\ IF rejectsEmpty(fs)
       THEN /\ catPc' = "rejected"
            /\ UNCHANGED <<cjobs, ops>>
     ELSE IF copiesDirectly(fs)
       THEN /\ catPc' = "copy"
            /\ ops' = Append(ops, [op |-> "copy", n |-> 1, lvl |-> lvl])
            /\ UNCHANGED cjobs
     ELSE /\ catPc' = "level"
          /\ cjobs' = cjobs \o levelJobs(fs, lvl)
          /\ UNCHANGED ops

\* concat.run(files, outputPath), the outermost call
CatRun ==
  /\ catPc = "call"
  /\ Enter(files, 1)
  /\ UNCHANGED <<nSeg, prevFiles, catResult, envVars, ttsVars, segVars, ocrVars>>

\* the limiter of the job's level runs it: gcs.combine(group, concatFilePath)
StartCombine(j) ==
  /\ cjobs[j].st = "queued"
  /\ \A k \in 1..(j - 1) : cjobs[k].st # "queued"
  /\ limitAdmits(ActiveAt(cjobs[j].lvl))
  /\ cjobs' = [cjobs EXCEPT ![j].st = "active", ![j].calls = 1]
  /\ ops' = Append(ops, [op |-> "combine", n |-> Len(cjobs[j].group), lvl |-> cjobs[j].lvl])
  /\ UNCHANGED <<nSeg, files, prevFiles, level, catPc, catResult, envVars,
                 ttsVars, segVars, ocrVars>>

\* bucket.combine: the destination holds the sources' contents, in order
combined(store, group) == Flatten([k \in DOMAIN group |-> store[group[k]]])

put(store, path, content) ==
  [p \in DOMAIN store \cup {path} |-> IF p = path THEN content ELSE store[p]]

CombineOk(j) ==
  /\ cjobs[j].st = "active"
  /\ fifo => \A k \in 1..(j - 1) : cjobs[k].st # "active"
  /\ storage' = put(storage, cjobs[j].dest, combined(storage, cjobs[j].group))
  /\ cjobs' = [cjobs EXCEPT ![j].st = "ok"]
  /\ UNCHANGED <<nSeg, files, prevFiles, level, catPc, catResult, ops, failBudget, fifo,
                 ttsVars, segVars, ocrVars>>

\* bucket.combine fails, or it succeeds and setMetadata fails
CombineFail(j) ==
  /\ cjobs[j].st = "active"
  /\ fifo => \A k \in 1..(j - 1) : cjobs[k].st # "active"
  /\ failBudget > 0
  /\ failBudget' = failBudget - 1
  /\ \/ UNCHANGED storage
     \/ storage' = put(storage, cjobs[j].dest, combined(storage, cjobs[j].group))
  /\ cjobs' = [cjobs EXCEPT ![j].st = "failed"]
  /\ UNCHANGED <<nSeg, files, prevFiles, level, catPc, catResult, ops, fifo,
                 ttsVars, segVars, ocrVars>>

\* (mutant) the level is taken as done when its first combine resolved
levelResolvedFirst == \E j \in LevelJobIds : cjobs[j].st = "ok"

\* Promise.all(promises) resolves: every promise of the level resolved
levelResolved == \A j \in LevelJobIds : cjobs[j].st = "ok"

\* Promise.all(promises).then(newFiles => this.run(newFiles, outputPath))
LevelDone ==
  /\ catPc = "level"
  /\ levelResolved
  /\ prevFiles' = files
  /\ LET first == CHOOSE j \in LevelJobIds : \A k \in LevelJobIds : j <= k
     IN Enter([g \in 1..Cardinality(LevelJobIds) |-> cjobs[first + g - 1].dest], level + 1)
  /\ UNCHANGED <<nSeg, catResult, envVars, ttsVars, segVars, ocrVars>>

\* Promise.all rejects as soon as one combine rejects; run is not called again
LevelFail ==
  /\ catPc = "level"
  /\ \E j \in LevelJobIds : cjobs[j].st = "failed"
  /\ catPc' = "rejected"
  /\ UNCHANGED <<nSeg, files, prevFiles, level, cjobs, catResult, ops, envVars,
                 ttsVars, segVars, ocrVars>>

\* gcs.copy(files[0], outputPath).then(() => outputPath)
CopyOk ==
  /\ catPc = "copy"
  /\ storage' = put(storage, outputPath, storage[files[1]])
  /\ catResult' = outputPath
  /\ catPc' = "resolved"
  /\ UNCHANGED <<nSeg, files, prevFiles, level, cjobs, ops, failBudget, fifo,
                 ttsVars, segVars, ocrVars>>

CopyFail ==
  /\ catPc = "copy"
  /\ failBudget > 0
  /\ failBudget' = failBudget - 1
  /\ catPc' = "rejected"
  /\ UNCHANGED <<nSeg, files, prevFiles, level, cjobs, catResult, ops, storage, fifo,
                 ttsVars, segVars, ocrVars>>

CatProgress ==
  \/ CatRun
  \/ \E j \in DOMAIN cjobs : StartCombine(j)
  \/ \E j \in DOMAIN cjobs : CombineOk(j)
  \/ LevelDone
  \/ CopyOk

NextCat ==
  \/ CatRun
  \/ \E j \in DOMAIN cjobs : StartCombine(j)
  \/ \E j \in DOMAIN cjobs : CombineOk(j)
  \/ \E j \in DOMAIN cjobs : CombineFail(j)
  \/ LevelDone
  \/ LevelFail
  \/ CopyOk
  \/ CopyFail

\* the segment files of a synthesis run under a prefix, each holding its own audio
PlainDir == <<"dev/mp3/book">>
DatedDir == <<"dev/mp3/book", "-", "2", "0", "1", "9">>

\* [n: segments, dir: their prefix, fails: failures allowed, fifo: the storage
\*  service answers the calls in the order it got them]
CatScenarios ==
  [n : {0, 1, 2, 3, 33, 65}, dir : {PlainDir, DatedDir}, fails : {1}, fifo : {FALSE}]
    \cup [n : {1032}, dir : {PlainDir, DatedDir}, fails : {0}, fifo : {TRUE}]

InitCatWith(sc) ==
  /\ nSeg = sc.n
  /\ files = [k \in 1..sc.n |-> getOutputPath(sc.dir, k)]
  /\ prevFiles = <<>> /\ level = 0 /\ cjobs = <<>> /\ catPc = "call"
  /\ catResult = NoPath /\ ops = <<>>
  /\ storage = [p \in {getOutputPath(sc.dir, k) : k \in 1..sc.n} |->
                  <<CHOOSE k \in 1..sc.n : getOutputPath(sc.dir, k) = p>>]
  /\ failBudget = sc.fails /\ fifo = sc.fifo
  /\ IdleTts /\ IdleSeg /\ IdleOcr

InitCat == \E sc \in CatScenarios : InitCatWith(sc)

SpecCat == InitCat /\ [][NextCat]_vars

NoCombineFailed == \A j \in DOMAIN cjobs : cjobs[j].st # "failed"

(* C6: each level of the merge turns its list of c segments into the
   ceil(c / maxCombine) destinations of consecutive groups of at most
   maxCombine; while no storage call fails the merge can always go on, and it
   ends with one segment, materialized at outputPath, which it returns. *)
MergeReduction ==
  /\ level >= 2 => Len(files) = Ceil(Len(prevFiles), maxCombine)
  /\ catPc = "level" =>
       /\ Cardinality(LevelJobIds) = Ceil(Len(files), maxCombine)
       /\ \A j \in LevelJobIds : Len(cjobs[j].group) \in 1..maxCombine
       /\ LET first == CHOOSE j \in LevelJobIds : \A k \in LevelJobIds : j <= k
          IN Flatten([g \in 1..Cardinality(LevelJobIds) |-> cjobs[first + g - 1].group])
               = files
  /\ (catPc \in {"call", "level", "copy"} /\ nSeg >= 2 /\ NoCombineFailed) =>
       ENABLED CatProgress
  /\ catPc = "resolved" =>
       /\ Len(files) = 1
       /\ catResult = outputPath
       /\ outputPath \in DOMAIN storage

MergeReductionWitness ==
  /\ catPc = "resolved" /\ nSeg = 65 /\ level = 3 /\ Len(prevFiles) = 3

(* C7: when the merge succeeds, the content at outputPath is the input
   segments' contents in input order, each once. *)
MergeOrdering ==
  catPc = "resolved" => storage[outputPath] = [k \in 1..nSeg |-> k]

RECURSIVE ExpectedSizes(_)
\* the group sizes of every level of a merge of n segments
ExpectedSizes(n) ==
  IF n <= 1 THEN <<>>
  ELSE [g \in 1..Ceil(n, 32) |-> Min(32, n - 32 * (g - 1))] \o ExpectedSizes(Ceil(n, 32))

IsCombine(o) == o.op = "combine"
CombineSizes == LET cs == SelectSeq(ops, IsCombine) IN [k \in DOMAIN cs |-> cs[k].n]

(* C8: a successful merge has issued one combine per group per level (also for
   a group of one) and then exactly one copy, its last storage call: no
   combine for 1 segment; combines of 32, 32, 1 and then 3 sources for 65. *)
CombineCallCount ==
  catPc = "resolved" =>
    /\ ops[Len(ops)].op = "copy"
    /\ Len(ops) = Len(CombineSizes) + 1
    /\ CombineSizes = ExpectedSizes(nSeg)
    /\ nSeg = 1 => CombineSizes = <<>>
    /\ nSeg = 65 => CombineSizes = <<32, 32, 1, 3>>

CombineCallCountWitness ==
  catPc = "resolved" /\ nSeg = 65 /\ Len(ops) = 5

---------------------------------------------------------------------------
(* Runs with more jobs than the limiter admits at once *)

CapTexts == [k \in 1..9 |-> 3000]

InitCapTts ==
  /\ \/ /\ texts = CapTexts
        /\ existFiles \in {{}, {getOutputPath(outputPrefix, 2)}}
        /\ failBudget = 1
     \/ /\ texts = <<3000>>
        /\ existFiles = {}
        /\ failBudget = MaxFails
  /\ i = 1 /\ num = 0 /\ jobs = <<>> /\ ttsPc = "plan" /\ ttsResult = <<>>
  /\ storage = [f \in existFiles |-> OldAudio]
  /\ fifo = FALSE
  /\ IdleCat /\ IdleSeg /\ IdleOcr

InitCap ==
  \/ InitCapTts
  \/ InitCatWith([n |-> 257, dir |-> PlainDir, fails |-> 1, fifo |-> FALSE])

SpecCap == InitCap /\ [][NextTts \/ NextCat]_vars

(* C5: the jobs started and not yet settled never number more than the
   configured concurrency (8): the synthesis jobs of a run, and the combine
   jobs of a whole recursive merge, whatever the order of completions and
   retries. *)
ConcurrencyCap ==
  /\ ActiveTts <= 8
  /\ ActiveCat <= 8

ConcurrencyCapWitness ==
  /\ ActiveTts = 8
  /\ \E j \in DOMAIN jobs : jobs[j].st = "queued"
  /\ \E j \in DOMAIN jobs : jobs[j].st = "active" /\ jobs[j].count = 2

---------------------------------------------------------------------------
(* TextToSpeechTask.splitSentences.  A page is the sequence of its words in
   emission order, a word its text and the y of its box's vertices (in tenths
   of the page height). *)

Max(S) == CHOOSE x \in S : \A y \in S : y <= x
MinOf(S) == CHOOSE x \in S : \A y \in S : x <= y

\* the indices at which d occurs in s
Occurrences(s, d) ==
  {k \in 1..(Len(s) - Len(d) + 1) : SubSeq(s, k, k + Len(d) - 1) = d}

RECURSIVE split(_, _)
\* s.split(d), d not empty: the pieces between the occurrences of d, taken
\* from the left without overlap
split(s, d) ==
  IF Occurrences(s, d) = {} THEN <<s>>
  ELSE LET k == MinOf(Occurrences(s, d))
       IN <<SubSeq(s, 1, k - 1)>> \o split(SubSeq(s, k + Len(d), Len(s)), d)

IsNotEmpty(x) == x # <<>>

\* (mutant) the test of the final map is inverted
terminatedInverted(x, d) == IF EndsWith(x, d) THEN x \o d ELSE x

\* x.endsWith(delimiter) ? x : (x + delimiter)
terminated(x, d) == IF EndsWith(x, d) THEN x ELSE x \o d

\* Math.max(...words.map(w => ys of w).flat()); -Infinity on a page without words
pageYmax(words) ==
  IF words = <<>> THEN -1000000
  ELSE Max(UNION {Range(words[k].ys) : k \in DOMAIN words})

\* what the loop pushes for the words of one page: every word but the last
pageTexts(words, d) ==
  LET ymax == pageYmax(words)
      boundary(k) ==
        /\ \A y \in Range(words[k].ys) : 10 * y < 9 * ymax
        /\ MinOf(Range(words[k + 1].ys)) < Max(Range(words[k].ys))
  IN [k \in 1..(Len(words) - 1) |->
        IF boundary(k) THEN words[k].text \o d ELSE words[k].text]

splitSentences(pages, d) ==
  LET pushed == Flatten([p \in DOMAIN pages |-> pageTexts(pages[p], d)])
      pieces == SelectSeq(split(Flatten(pushed), d), IsNotEmpty)
  IN [k \in DOMAIN pieces |-> terminated(pieces[k], d)]

SplitSentences ==
  /\ segPc = "ready"
  /\ fragments' = splitSentences(ocrDoc, delimiter)
  /\ segPc' = "done"
  /\ UNCHANGED <<ocrDoc, delimiter, ttsVars, envVars, catVars, ocrVars>>

WordTexts == {<<"a">>, <<"b">>, <<"a", "b">>}
WordBoxes == {<<1, 3>>, <<2, 10>>}
Words == [text : WordTexts, ys : WordBoxes]
Pages == SeqsUpTo(Words, MaxWords)
Delimiters == {<<"b">>, <<"b", "b">>, <<"a", "b">>}

InitSeg ==
  /\ ocrDoc \in {<<p>> : p \in Pages} \cup {<<p, q>> : p \in Pages, q \in Pages}
  /\ delimiter \in Delimiters
  /\ fragments = <<>> /\ segPc = "ready"
  /\ storage = <<>> /\ failBudget = 0 /\ fifo = FALSE
  /\ IdleTts /\ IdleCat /\ IdleOcr

SpecSeg == InitSeg /\ [][SplitSentences]_vars

(* C9 as claimed: every fragment is non-empty, ends with the delimiter and
   contains the delimiter nowhere but at its end. *)
FragmentInvariantAsClaimed ==
  \A k \in DOMAIN fragments :
    /\ fragments[k] # <<>>
    /\ EndsWith(fragments[k], delimiter)
    /\ Occurrences(fragments[k], delimiter) = {Len(fragments[k]) - Len(delimiter) + 1}

(* C9 as amended: every fragment is non-empty and ends with the delimiter; the
   text before that final delimiter does not contain the delimiter; and when
   the delimiter is a single character the fragment contains it nowhere but
   at its end. *)
FragmentInvariant ==
  \A k \in DOMAIN fragments :
    LET f == fragments[k]
        body == SubSeq(f, 1, Len(f) - Len(delimiter))
    IN /\ f # <<>>
       /\ EndsWith(f, delimiter)
       /\ Occurrences(body, delimiter) = {}
       /\ Len(delimiter) = 1 => Occurrences(f, delimiter) = {Len(f)}

FragmentInvariantWitness ==
  /\ segPc = "done"
  /\ Len(fragments) >= 2
  /\ \E k \in DOMAIN fragments : Cardinality(Occurrences(fragments[k], delimiter)) = 2

---------------------------------------------------------------------------
(* OcrTask.  An object name is the token sequence of its characters; the
   shards of an OCR output are output-<first>-to-<last>.json under the
   destination prefix. *)

RECURSIVE digitRun(_)
\* the value of the longest run of digits at the head of s
digitRun(s) ==
  IF s = <<>> \/ ~IsDigit(Head(s)) THEN <<>> ELSE <<Head(s)>> \o digitRun(Tail(s))

RECURSIVE value(_, _)
value(ds, acc) == IF ds = <<>> THEN acc ELSE value(Tail(ds), 10 * acc + DigitVal(Head(ds)))

\* parseInt(name.replace(/^.*?([0-9]+).*$/, '$1'), 10): the first run of digits
\* of the name (every shard name has one)
ord(name) ==
  LET first == MinOf({k \in DOMAIN name : IsDigit(name[k])})
  IN value(digitRun(SubSeq(name, first, Len(name))), 0)

RECURSIVE insertByOrd(_, _)
insertByOrd(sorted, x) ==
  IF sorted = <<>> THEN <<x>>
  ELSE IF ord(x) - ord(sorted[Len(sorted)]) < 0
         THEN Append(insertByOrd(SubSeq(sorted, 1, Len(sorted) - 1), x), sorted[Len(sorted)])
         ELSE Append(sorted, x)

RECURSIVE sortByOrd(_)
\* files.sort((a, b) => this.ord(a) - this.ord(b)): a stable sort
sortByOrd(fs) ==
  IF fs = <<>> THEN <<>>
  ELSE insertByOrd(sortByOrd(SubSeq(fs, 1, Len(fs) - 1)), fs[Len(fs)])

\* if (listFiles.length > 0)
skipsOcr(listed) == Len(listed) > 0

\* gcs.listFiles(outputPrefix).then(...): the resume branch, or the OCR call
OcrListed ==
  /\ ocrPc = "list"
  /\ IF skipsOcr(bucketList)
       THEN /\ ocrResult' = bucketList
            /\ ocrPc' = "resolved"
            /\ UNCHANGED annotateCalls
       ELSE /\ annotateCalls' = annotateCalls + 1
            /\ ocrPc' = "annotate"
            /\ UNCHANGED ocrResult
  /\ UNCHANGED <<bucketList, freshList, ttsVars, envVars, catVars, segVars>>

\* the operation ends: the prefix is listed again and the names are sorted
OcrAnnotated ==
  /\ ocrPc = "annotate"
  /\ ocrResult' = sortByOrd(freshList)
  /\ ocrPc' = "resolved"
  /\ UNCHANGED <<bucketList, freshList, annotateCalls, ttsVars, envVars, catVars, segVars>>

\* asyncBatchAnnotateFiles, the operation or the second listing fails
OcrFailed ==
  /\ ocrPc = "annotate"
  /\ failBudget > 0
  /\ failBudget' = failBudget - 1
  /\ ocrPc' = "rejected"
  /\ UNCHANGED <<bucketList, freshList, ocrResult, annotateCalls, storage, fifo,
                 ttsVars, catVars, segVars>>

NextOcr == OcrListed \/ OcrAnnotated \/ OcrFailed

JsonDirs == { <<"dev/json/book">>, <<"dev/json/book", "2">> }
shardName(dir, k) ==
  dir \o <<"/output-">> \o Dec(BatchSize * (k - 1) + 1) \o <<"-to-">> \o Dec(BatchSize * k)
      \o <<".json">>

\* every order of every set of shards
Listings(dir) ==
  {s \in SeqsUpTo({shardName(dir, k) : k \in 1..MaxShards}, MaxShards) :
     \A a, b \in DOMAIN s : a # b => s[a] # s[b]}

InitOcr ==
  /\ \E dir \in JsonDirs :
       \/ /\ bucketList \in Listings(dir) \ {<<>>}
          /\ freshList = <<>>
       \/ /\ bucketList = <<>>
          /\ freshList \in Listings(dir) \ {<<>>}
  /\ ocrPc = "list" /\ ocrResult = <<>> /\ annotateCalls = 0
  /\ storage = <<>> /\ failBudget = 1 /\ fifo = FALSE
  /\ IdleTts /\ IdleCat /\ IdleSeg

SpecOcr == InitOcr /\ [][NextOcr]_vars

(* C10: when the destination prefix already holds shards, the OCR stage calls
   no OCR service and returns the listed names sorted ascending by the number
   in each name, whatever the order of the listing. *)
OcrResumeSorted ==
  (ocrPc = "resolved" /\ bucketList # <<>>) =>
    /\ annotateCalls = 0
    /\ Range(ocrResult) = Range(bucketList) /\ Len(ocrResult) = Len(bucketList)
    /\ \A a, b \in DOMAIN ocrResult : a < b => ord(ocrResult[a]) <= ord(ocrResult[b])

---------------------------------------------------------------------------
(* Further properties of the merge *)

(* C11: a combine call that fails is invoked again, up to the attempt cap,
   before its group (and with it the merge) is failed. *)
CombineIsRetried ==
  \A j \in DOMAIN cjobs : cjobs[j].st = "failed" => cjobs[j].calls = maxTries

\* the segment files the merge was called with
LeafPaths == UNION {Range(cjobs[j].group) : j \in {k \in DOMAIN cjobs : cjobs[k].lvl = 1}}

(* C17: at every level, the destination derived for a group differs from
   every source path of the level, from the destination of every other group
   of the level and from every segment file. *)
FreshDestinations ==
  catPc = "level" =>
    \A j \in LevelJobIds :
      /\ cjobs[j].dest \notin Range(files)
      /\ \A k \in LevelJobIds : k # j => cjobs[k].dest # cjobs[j].dest
      /\ cjobs[j].dest \notin LeafPaths

(* C18: a combine of a later level, or the copy, is started only when every
   combine of the levels before has resolved; after a failed combine no later
   level exists and no copy is issued. *)
LevelsSequential ==
  /\ \A j, k \in DOMAIN cjobs : cjobs[j].lvl < cjobs[k].lvl => cjobs[j].st = "ok"
  /\ (\E o \in Range(ops) : o.op = "copy") => \A j \in DOMAIN cjobs : cjobs[j].st = "ok"
  /\ \A j \in DOMAIN cjobs :
       cjobs[j].st = "failed" =>
         /\ level = cjobs[j].lvl
         /\ catPc \in {"level", "rejected"}
         /\ outputPath \notin DOMAIN storage

LevelsSequentialWitness ==
  /\ catPc = "rejected"
  /\ nSeg = 65
  /\ \E j \in DOMAIN cjobs : cjobs[j].st = "failed" /\ cjobs[j].lvl = 2

---------------------------------------------------------------------------
(* Further properties of the chunk planning *)

(* C13: every chunk takeChunk returns that consists of two or more fragments
   has length at most maxLength, for every fragment list and start index. *)
ChunkBound ==
  /\ \A index \in 1..Len(texts) :
       LET chunk == takeChunk(texts, index)
       IN Len(chunk.text) >= 2 => SumLen(texts, chunk.text) <= maxLength
  /\ \A j \in DOMAIN jobs :
       Len(jobs[j].text) >= 2 => SumLen(texts, jobs[j].text) <= maxLength

ChunkBoundWitness ==
  \E j \in DOMAIN jobs :
    /\ Len(jobs[j].text) = 2
    /\ SumLen(texts, jobs[j].text) = maxLength
    /\ jobs[j].next <= Len(texts)

(* C15: every takeChunk(texts, i) with i < texts.length returns a next index
   strictly greater than i, so the planning loop advances with every job it
   submits. *)
TakeChunkAdvances ==
  \A j \in DOMAIN jobs : jobs[j].next > jobs[j].from

---------------------------------------------------------------------------
(* Further properties of TextToSpeechTask.run *)

(* C12: when run succeeds with m chunks it returns exactly m paths, and the
   k-th returned path is the k-th planned path and holds the audio of the
   k-th chunk (written by this run, or found at that path by the listing),
   whatever the completion order and whichever jobs were skipped or retried. *)
SubmissionOrderResults ==
  ttsPc = "resolved" =>
    /\ Len(ttsResult) = num
    /\ \A k \in 1..num :
         LET path == getOutputPath(outputPrefix, k)
         IN /\ ttsResult[k] = path
            /\ path \in DOMAIN storage
            /\ \/ storage[path] = jobs[k].text
               \/ path \in existFiles /\ storage[path] = OldAudio

---------------------------------------------------------------------------
(* Further properties of splitSentences *)

\* the texts of all words of all pages, joined in emission order
allWordTexts(pages) ==
  Flatten([p \in DOMAIN pages |->
             Flatten([k \in DOMAIN pages[p] |-> pages[p][k].text])])

(* C16: for every OCR result whose word texts do not contain the delimiter,
   concatenating all fragments and removing the delimiters yields the
   concatenation of the texts of all words of all pages, the last word of
   each page included. *)
TextConserved ==
  (/\ segPc = "done"
   /\ \A p \in DOMAIN ocrDoc : \A k \in DOMAIN ocrDoc[p] :
        Occurrences(ocrDoc[p][k].text, delimiter) = {})
  => Flatten(split(Flatten(fragments), delimiter)) = allWordTexts(ocrDoc)

---------------------------------------------------------------------------
(* The chain of the pipeline entry, tts.run(...).then(files => concat.run(files,
   outputPath)), with TextToSpeechTask of src/ts as the speech stage *)

\* (mutant) the continuation runs however the speech stage settled
chainsOnSettled(pc) == pc \in {"resolved", "rejected"}

\* promise.then(onFulfilled): the continuation runs when the promise fulfilled
chainsOn(pc) == pc = "resolved"

\* .then(files => concat.run(files, `dev/out/${basename}.mp3`))
PipeConcat ==
  /\ chainsOn(ttsPc)
  /\ catPc = "idle"
  /\ catPc' = "call"
  /\ files' = ttsResult
  /\ nSeg' = Len(ttsResult)
  /\ UNCHANGED <<prevFiles, level, cjobs, catResult, ops, envVars, ttsVars, segVars, ocrVars>>

NextPipe == NextTts \/ PipeConcat \/ NextCat

PipeTexts == { <<>>, <<3000>>, <<3000, 3000>>, <<2000, 3000, 3000>> }

InitPipe ==
  /\ texts \in PipeTexts
  /\ existFiles \in SUBSET {getOutputPath(outputPrefix, 1), getOutputPath(outputPrefix, 2)}
  /\ i = 1 /\ num = 0 /\ jobs = <<>> /\ ttsPc = "plan" /\ ttsResult = <<>>
  /\ storage = [f \in existFiles |-> OldAudio]
  /\ failBudget = MaxFails /\ fifo = FALSE
  /\ IdleCat /\ IdleSeg /\ IdleOcr

SpecPipe == InitPipe /\ [][NextPipe]_vars

(* C14: ConcatMp3Task.run called with zero segments rejects without issuing
   a copy or a combine call and without writing outputPath or anything else;
   this is how the pipeline ends when the speech stage yields zero chunks. *)
EmptyMergeRejects ==
  (nSeg = 0 /\ catPc # "idle") =>
    /\ catPc \in {"call", "rejected"}
    /\ catPc = "call" => ENABLED CatRun
    /\ ops = <<>> /\ cjobs = <<>>
    /\ catResult = NoPath
    /\ outputPath \notin DOMAIN storage
    /\ storage = [f \in existFiles |-> OldAudio]

EmptyMergeRejectsWitness ==
  /\ texts = <<>>
  /\ ttsPc = "resolved" /\ ttsResult = <<>>
  /\ catPc = "rejected"

(* C19: once a synthesis job has exhausted its retries, TextToSpeechTask.run
   rejects (it is awaiting and can only reject, or has rejected), the merge
   is never invoked and outputPath is never written; a sibling job still in
   flight can finish and write its own chunk file. *)
NoPartialOutput ==
  (\E j \in DOMAIN jobs : jobs[j].st = "rejected") =>
    /\ ttsPc \in {"await", "rejected"}
    /\ ttsPc = "await" => ENABLED TtsReject /\ ~ENABLED TtsResolve
    /\ catPc = "idle" /\ ops = <<>> /\ cjobs = <<>>
    /\ outputPath \notin DOMAIN storage
    /\ \A k \in DOMAIN jobs : jobs[k].st = "active" => ENABLED TtsOk(k)

NoPartialOutputWitness ==
  /\ ttsPc = "rejected"
  /\ \E j \in DOMAIN jobs : jobs[j].st = "rejected" /\ jobs[j].calls = maxTries
  /\ \E k \in DOMAIN jobs :
       /\ jobs[k].st = "resolved" /\ jobs[k].calls > 0
       /\ storage[jobs[k].path] = jobs[k].text

---------------------------------------------------------------------------
(* The entry program of app.ts: ocr.run, then run of the TextToSpeechTask
   class that app.ts itself defines *)

\* app.ts TextToSpeechTask.run up to its first statement after the awaits:
\* the listing and the OCR documents are read, textsList is logged, and
\* if (1) { process.exit(1); } ends the process
AppTtsRun ==
  /\ ocrPc = "resolved"
  /\ ttsPc = "idle"
  /\ ttsPc' = "exited"
  /\ UNCHANGED <<texts, existFiles, i, num, jobs, ttsResult, envVars, catVars, segVars, ocrVars>>

\* the listing of the output prefix or the read of an OCR document fails
AppTtsFailed ==
  /\ ocrPc = "resolved"
  /\ ttsPc = "idle"
  /\ failBudget > 0
  /\ failBudget' = failBudget - 1
  /\ ttsPc' = "rejected"
  /\ UNCHANGED <<texts, existFiles, i, num, jobs, ttsResult, storage, fifo,
                 catVars, segVars, ocrVars>>

NextApp == NextOcr \/ AppTtsRun \/ AppTtsFailed

SpecApp == InitOcr /\ [][NextApp]_vars

(* C20: the pipeline of app.ts, run on a document with at least one shard
   and with every external call succeeding, reaches the synthesis jobs, then
   the concat stage, and writes the final file at the output path: the
   process does not end before the jobs were submitted, the concat stage has
   resolved and the final file is written. *)
PipelineCompletes ==
  (/\ ocrPc = "resolved" /\ Len(ocrResult) >= 1
   /\ ttsPc = "exited")
  => /\ jobs # <<>>
     /\ catPc = "resolved"
     /\ outputPath \in DOMAIN storage

====
